---------------------------- MODULE Spec2Model ----------------------------
(***************************************************************************)
(* A model of search-vdjdb: the PublicTcrDb class of                       *)
(*   src/src/python/search_vdjdb/_query.py   (called "_query" below)       *)
(*   src/search_vdjdb/query_db.py            (called "query_db" below)     *)
(* Text is a sequence of one-character strings, so that the regular        *)
(* expressions of _fix_vj_format and the substring test of find are        *)
(* computed character by character.                                        *)
(***************************************************************************)
EXTENDS Integers, Sequences, FiniteSets, TLC

VARIABLES
    impl,        \* which module's PublicTcrDb is running: "_query" or "query_db"
    upstream,    \* the member vdjdb.slim.txt of the latest release, as text rows
    cache,       \* the file .vdjdb_tsv.gz
    vdjdb,       \* the attribute self.vdjdb
    last,        \* the call that has just ended and how, until the caller takes it
    pc,          \* file_query's position
    queries,     \* file_query: the argument query and the dict toml.load made of it
    all_results, \* file_query: the list all_results
    segs         \* a v.segm / j.segm cell, before and after each pass of _fix_vj_format

vars == <<impl, upstream, cache, vdjdb, last, pc, queries, all_results, segs>>

-----------------------------------------------------------------------------
(* Bounds of the model. *)

MaxCellLen == 6   \* the longest text of a segment cell
MaxPasses == 2    \* the passes of _fix_vj_format over one cell
MaxRows == 3      \* the rows of the released table
MaxBatchRows == 2 \* the rows of the released table, in a run of file_query
MaxQueries == 2   \* the named queries of a query file
MaxFetchRows == 2 \* the rows of the released table, when a fetch may fail

-----------------------------------------------------------------------------
(* Text. *)

TcrLetters == {"T", "C", "R", "A", "B", "V", "J"}
ChainLetters == {"A", "B", "V", "J"}
Digits == {"0", "1", "2", "3", "4", "5", "6", "7", "8", "9"}

InText(s, i, set) == i >= 1 /\ i <= Len(s) /\ s[i] \in set

\* The last index of the run of [TCRABVJ] letters that starts at i.
RECURSIVE RunEnd(_, _)
RunEnd(s, i) ==
    IF InText(s, i + 1, TcrLetters) THEN RunEnd(s, i + 1) ELSE i

\* A digit at i that no digit follows: (\d)(?!\d).
LoneDigit(s, i) == InText(s, i, Digits) /\ ~InText(s, i + 1, Digits)

\* The length of the match of rule `rule` of pat_rep that starts at i (0: none).
\*   1: (T)(R[ABVJ]+)(.*)              .* runs to the end of the cell
\*   2: (?P<tcr>[TCRABVJ]+)(\d)(?!\d)  the greedy run, then one lone digit
\*   3: (?P<dash>\-)(\d)(?!\d)
MatchLen(rule, s, i) ==
    CASE rule = 1 ->
           IF s[i] = "T" /\ InText(s, i + 1, {"R"}) /\ InText(s, i + 2, ChainLetters)
           THEN Len(s) - i + 1 ELSE 0
      [] rule = 2 ->
           IF s[i] \in TcrLetters /\ LoneDigit(s, RunEnd(s, i) + 1)
           THEN RunEnd(s, i) - i + 2 ELSE 0
      [] rule = 3 ->
           IF s[i] = "-" /\ LoneDigit(s, i + 1) THEN 2 ELSE 0

\* What the match of length m at i is replaced by.
\*   1: \1C\2\3      2: \g<tcr>0\2      3: \g<dash>0\2
Replacement(rule, s, i, m) ==
    CASE rule = 1 -> <<"T", "C">> \o SubSeq(s, i + 1, Len(s))
      [] rule = 2 -> SubSeq(s, i, i + m - 2) \o <<"0", s[i + m - 1]>>
      [] rule = 3 -> <<"-", "0", s[i + 1]>>

\* re.sub from position i on: every non-overlapping match, left to right.
RECURSIVE Scan(_, _, _)
Scan(rule, s, i) ==
    IF i > Len(s) THEN <<>>
    ELSE LET m == MatchLen(rule, s, i)
         IN  IF m > 0
             THEN Replacement(rule, s, i, m) \o Scan(rule, s, i + m)
             ELSE <<s[i]>> \o Scan(rule, s, i + 1)

ReSub(rule, s) == Scan(rule, s, 1)

\* The pipeline without its third pattern: a digit after a dash stays bare.
FixCellNoDashRule(s) == ReSub(2, ReSub(1, s))

\* One pass of _fix_vj_format over the text of one cell: the three rules of
\* pat_rep in the order of the dict, each on the output of the one before.
FixCell(s) == ReSub(3, ReSub(2, ReSub(1, s)))

-----------------------------------------------------------------------------
(* Cells, text files and data frames. *)

Range(f) == {f[i] : i \in DOMAIN f}

\* A cell of a data frame: t is what pandas holds there, s its text.
Str(s) == [t |-> "str", s |-> s]
NaN == [t |-> "nan", s |-> <<>>]

\* Characters in code-point order, as Python compares str.
CodeOrder ==
    <<"'", "-", ".", "0", "1", "2", "3", "4", "5", "6", "7", "8", "9",
      "A", "B", "C", "H", "J", "M", "R", "S", "T", "V",
      "a", "c", "e", "i", "l", "m", "n", "o", "p", "s", "u", "x">>

CharCode(c) == CHOOSE i \in 1..Len(CodeOrder) : CodeOrder[i] = c

RECURSIVE TextLess(_, _)
TextLess(a, b) ==
    IF b = <<>> THEN FALSE
    ELSE IF a = <<>> THEN TRUE
    ELSE IF a[1] = b[1] THEN TextLess(Tail(a), Tail(b))
    ELSE CharCode(a[1]) < CharCode(b[1])

DigitSeq == <<"0", "1", "2", "3", "4", "5", "6", "7", "8", "9">>
DigitVal(c) == (CHOOSE i \in 1..10 : DigitSeq[i] = c) - 1

RECURSIVE IntVal(_)
IntVal(s) ==
    IF s = <<>> THEN 0
    ELSE 10 * IntVal(SubSeq(s, 1, Len(s) - 1)) + DigitVal(s[Len(s)])

IsIntText(s) == s # <<>> /\ \A i \in 1..Len(s) : s[i] \in Digits

\* The text to_csv writes for a whole float: digits, then ".0".
IsFloatText(s) ==
    /\ Len(s) >= 3
    /\ SubSeq(s, Len(s) - 1, Len(s)) = <<".", "0">>
    /\ IsIntText(SubSeq(s, 1, Len(s) - 2))

\* str(int(s)): the digits without leading zeros.
RECURSIVE IntText(_)
IntText(s) == IF Len(s) > 1 /\ s[1] = "0" THEN IntText(Tail(s)) ELSE s

\* "a in b" of Python on str, and Series.str.contains(sub, regex = False).
Contains(s, sub) ==
    \E i \in 0..(Len(s) - Len(sub)) : SubSeq(s, i + 1, i + Len(sub)) = sub

\* pd.to_datetime("today").strftime("%Y-%m-%d"), for the day of the run.
DatePulled == <<"2", "0", "2", "6", "-", "1", "1", "-", "0", "5">>

\* A data frame with no row and no column (the value of fields that hold none).
NoFrame == [cols |-> <<>>, dtype |-> <<>>, rows |-> <<>>]
NoFile == [cols |-> <<>>, rows |-> <<>>]

\* The dtype pandas.read_csv infers for column c of the text table tt when no
\* dtype is given. The texts of this model are digits, letters, "-", "." and
\* "'": no column holds a float, a boolean or one of the NA words.
InferDtype(tt, c) ==
    LET texts == {tt.rows[i][c] : i \in 1..Len(tt.rows)}
    IN  IF texts = {} THEN "object"
        ELSE IF \A x \in texts : IsIntText(x) THEN "int64"
        ELSE IF \A x \in texts : x = <<>> \/ IsIntText(x) \/ IsFloatText(x)
             THEN "float64"
        ELSE "object"

\* The cell read_csv makes of text x in a column of dtype d: an empty field
\* is a missing value, whatever the dtype.
ParseCell(d, x) ==
    IF x = <<>> THEN NaN
    ELSE CASE d = "int64" -> [t |-> "int", s |-> IntText(x)]
           [] d = "float64" ->
                [t |-> "float",
                 s |-> IntText(IF IsFloatText(x) THEN SubSeq(x, 1, Len(x) - 2) ELSE x)]
           [] OTHER -> Str(x)

\* pd.read_csv(f, sep = "\t"), with dtype = str when asStr.
ReadCsv(tt, asStr) ==
    LET names == Range(tt.cols)
        dt == [c \in names |-> IF asStr THEN "object" ELSE InferDtype(tt, c)]
    IN  [cols |-> tt.cols,
         dtype |-> dt,
         rows |-> [i \in 1..Len(tt.rows) |->
                     [c \in names |-> ParseCell(dt[c], tt.rows[i][c])]]]

\* The text to_csv writes for a cell: a missing value is the empty field.
CellText(cell) ==
    CASE cell.t = "nan" -> <<>>
      [] cell.t = "float" -> cell.s \o <<".", "0">>
      [] OTHER -> cell.s

\* df.to_csv(f, sep = "\t", index = False).
ToCsv(df) ==
    [cols |-> df.cols,
     rows |-> [i \in 1..Len(df.rows) |->
                 [c \in Range(df.cols) |-> CellText(df.rows[i][c])]]]

-----------------------------------------------------------------------------
(* The construct columns (VdjdbMeta, and the vdjdb_* attributes of query_db). *)

Gene == "gene"
Cdr3 == "cdr3"
V == "v.segm"
J == "j.segm"
Complex == "complex.id"
Species == "species"
DateCol == "date_pulled"

HomoSapiens == <<"H", "o", "m", "o", "S", "a", "p", "i", "e", "n", "s">>

\* DataFrame.replace(regex = True) rewrites the cells that hold a str and
\* leaves every other cell (a missing value, a number) as it is.
FixVjCell(cell) == IF cell.t = "str" THEN Str(FixCell(cell.s)) ELSE cell

\* _fix_vj_format on the data frame df: the cells of v.segm and j.segm.
FixVjFormat(df) ==
    [df EXCEPT !.rows =
        [i \in 1..Len(df.rows) |->
            [c \in Range(df.cols) |->
                IF c \in {V, J} THEN FixVjCell(df.rows[i][c]) ELSE df.rows[i][c]]]]

FillNaCell(cell) == IF cell.t = "nan" THEN Str(<<>>) ELSE cell

\* dbdf.fillna("")
FillNa(df) ==
    [df EXCEPT !.rows =
        [i \in 1..Len(df.rows) |->
            [c \in Range(df.cols) |-> FillNaCell(df.rows[i][c])]]]

\* dbdf["date_pulled"] = ...: one more column, the same date on every row.
AddDatePulled(df) ==
    [cols |-> Append(df.cols, DateCol),
     dtype |-> [c \in Range(df.cols) \cup {DateCol} |->
                  IF c = DateCol THEN "datetime64" ELSE df.dtype[c]],
     rows |-> [i \in 1..Len(df.rows) |->
                 [c \in Range(df.cols) \cup {DateCol} |->
                    IF c = DateCol THEN [t |-> "date", s |-> DatePulled]
                    ELSE df.rows[i][c]]]]

\* dbdf[dbdf["species"] == "HomoSapiens"].reset_index(drop = True)
HumanOnly(df) ==
    [df EXCEPT !.rows = SelectSeq(df.rows, LAMBDA r : r[Species] = Str(HomoSapiens))]

\* _extract_dfs(zip_url, [txt_file]): the list of the data frames of the
\* requested members that the archive holds. member is FALSE when the archive
\* has no member txt_file: all_contents.open raises KeyError, which is caught
\* and logged, and the list stays empty.
ExtractDfs(im, member, tt) ==
    IF ~member THEN <<>>
    ELSE IF im = "_query"
         THEN <<HumanOnly(AddDatePulled(FillNa(ReadCsv(tt, TRUE))))>>
         ELSE <<ReadCsv(tt, FALSE)>>

\* The values of self.vdjdb and of the cache file.
Unset == [st |-> "unset", df |-> NoFrame]   \* _query: the attribute was never set
None == [st |-> "none", df |-> NoFrame]     \* query_db: self.vdjdb = None
Frame(df) == [st |-> "frame", df |-> df]
Absent == [st |-> "absent", file |-> NoFile]
Corrupt == [st |-> "corrupt", file |-> NoFile]
File(tt) == [st |-> "file", file |-> tt]

\* The releases the network can answer get_vdjdb with.
Nets == {"ok", "http_error", "no_member"}

\* What can go wrong in one run of get_vdjdb, "ok" when nothing does: the
\* release lookup, the download of the archive, the member missing from the
\* archive, the replace of one of the three patterns, and the write of the
\* cache file, refused before the file is opened or cut short after it.
Runs == Nets \cup {"download_error", "rule1_error", "rule2_error", "rule3_error",
                   "write_denied", "write_cut"}

\* One turn of the loop of _fix_vj_format: the replace of pattern `rule` on
\* the cells of v.segm and j.segm, assigned back to the two columns.
ApplyRule(df, rule) ==
    [df EXCEPT !.rows =
        [i \in 1..Len(df.rows) |->
            [c \in Range(df.cols) |->
                IF c \in {V, J} /\ df.rows[i][c].t = "str"
                THEN Str(ReSub(rule, df.rows[i][c].s))
                ELSE df.rows[i][c]]]]

\* self.vdjdb after the first n turns of that loop.
RECURSIVE RulesApplied(_, _)
RulesApplied(df, n) == IF n = 0 THEN df ELSE ApplyRule(RulesApplied(df, n - 1), n)

\* The turn of the loop of _fix_vj_format that raises, 0 when none does.
FailingRule(net) ==
    CASE net = "rule1_error" -> 1
      [] net = "rule2_error" -> 2
      [] net = "rule3_error" -> 3
      [] OTHER -> 0

\* get_vdjdb(cache = True) on an object whose self.vdjdb is db, with the cache
\* file cf, when the run goes as net says: what is raised ("" when nothing),
\* and self.vdjdb and the cache file afterwards.
\*   http_error:     the release lookup fails and the exception leaves get_vdjdb
\*   download_error: urlopen raises in _extract_dfs, before anything is assigned
\*   no_member:      _extract_dfs(...)[0] raises IndexError, which is caught and
\*                   logged: get_vdjdb returns with nothing set
\*   ruleN_error:    self.vdjdb was assigned the extracted table before
\*                   _fix_vj_format began, and holds what the turns before the
\*                   one that raised made of it
\*   write_denied:   to_csv cannot open the file; write_cut: it opened (and
\*                   emptied) the file and could not finish it
GetVdjdb(im, db, cf, net, tt) ==
    IF net = "http_error"
    THEN [raised |-> "RequestError", vdjdb |-> db, cache |-> cf]
    ELSE IF net = "download_error"
    THEN [raised |-> "URLError", vdjdb |-> db, cache |-> cf]
    ELSE LET dfs == ExtractDfs(im, net # "no_member", tt)
         IN  IF Len(dfs) = 0
             THEN [raised |-> "", vdjdb |-> db, cache |-> cf]
             ELSE IF FailingRule(net) # 0
             THEN [raised |-> "MemoryError",
                   vdjdb |-> Frame(RulesApplied(dfs[1], FailingRule(net) - 1)),
                   cache |-> cf]
             ELSE LET df == FixVjFormat(dfs[1])
                  IN  IF net = "write_denied"
                      THEN [raised |-> "OSError", vdjdb |-> Frame(df), cache |-> cf]
                      ELSE IF net = "write_cut"
                      THEN [raised |-> "OSError", vdjdb |-> Frame(df), cache |-> Corrupt]
                      ELSE [raised |-> "", vdjdb |-> Frame(df),
                            cache |-> File(ToCsv(df))]

-----------------------------------------------------------------------------
(* find. A query spec is the sequence of the (column, substring) pairs of the *)
(* mapping vdjdb_search, in the order of its items().                         *)

Pair(k, v) == [k |-> k, v |-> v]

\* The value of `col`.str.contains('v', regex = False) on one cell.
MaskCell(cell, v) ==
    IF cell.t = "nan" THEN "nan" ELSE IF Contains(cell.s, v) THEN "true" ELSE "false"

\* What evaluating the expression built from the spec q raises on df, "" when
\* it evaluates. The substring is pasted between two quotes: one that holds a
\* quote itself leaves a text that is no expression. A name that is no column
\* is undefined. .str exists on object columns only. A mask of one test that
\* holds a missing value cannot select rows; missing values of a conjunction
\* of several tests are filled with False by the & of two Series.
QueryRaises(df, q) ==
    IF \E i \in 1..Len(q) : Contains(q[i].v, <<"'">>) THEN "SyntaxError"
    ELSE IF \E i \in 1..Len(q) : q[i].k \notin Range(df.cols)
         THEN "UndefinedVariableError"
    ELSE IF \E i \in 1..Len(q) : df.dtype[q[i].k] # "object" THEN "AttributeError"
    ELSE IF Len(q) = 1 /\ \E r \in 1..Len(df.rows) :
                             MaskCell(df.rows[r][q[1].k], q[1].v) = "nan"
         THEN "ValueError"
    ELSE ""

\* self.vdjdb.query(" & ".join(v_row_filt)): the rows every test holds of.
QueryRows(df, q) ==
    [df EXCEPT !.rows =
        SelectSeq(df.rows,
                  LAMBDA r : \A i \in 1..Len(q) : MaskCell(r[q[i].k], q[i].v) = "true")]

\* Ascending order of the values of one column; missing values sort last.
CellLess(a, b) ==
    IF a.t = "nan" THEN FALSE
    ELSE IF b.t = "nan" THEN TRUE
    ELSE IF a.t \in {"int", "float"} THEN IntVal(a.s) < IntVal(b.s)
    ELSE TextLess(a.s, b.s)

\* Row a sorts before row b by the columns `by`, the first one first.
RECURSIVE KeyLess(_, _, _)
KeyLess(a, b, by) ==
    IF by = <<>> THEN FALSE
    ELSE IF CellLess(a[by[1]], b[by[1]]) THEN TRUE
    ELSE IF CellLess(b[by[1]], a[by[1]]) THEN FALSE
    ELSE KeyLess(a, b, Tail(by))

\* r put into the sorted rows after every row that does not sort after it.
RECURSIVE InsertRow(_, _, _)
InsertRow(rows, r, by) ==
    IF rows = <<>> THEN <<r>>
    ELSE IF KeyLess(r, rows[1], by) THEN <<r>> \o rows
    ELSE <<rows[1]>> \o InsertRow(Tail(rows), r, by)

RECURSIVE SortRows(_, _)
SortRows(rows, by) ==
    IF rows = <<>> THEN <<>>
    ELSE InsertRow(SortRows(SubSeq(rows, 1, Len(rows) - 1), by), rows[Len(rows)], by)

\* sort_values whose result is dropped: the rows stay as they were.
SortValuesDropped(df, by) == df

\* sort_values with its keys the other way round.
SortValuesSwapped(df, by) == [df EXCEPT !.rows = SortRows(df.rows, <<by[2], by[1]>>)]

\* df.sort_values(by): a stable sort on several keys.
SortValues(df, by) == [df EXCEPT !.rows = SortRows(df.rows, by)]

\* The columns find selects when construct_only: the values of the attributes
\* of the object whose name starts with "vdjdb_", in the order they were set.
ConstructCols == <<Gene, Cdr3, V, J, Complex>>

\* v_result.loc[:, cols]
Loc(df, cols) ==
    [cols |-> cols,
     dtype |-> [c \in Range(cols) |-> df.dtype[c]],
     rows |-> [i \in 1..Len(df.rows) |-> [c \in Range(cols) |-> df.rows[i][c]]]]

\* What a call returns: nothing (it raised), None, or a data frame.
Nothing == [st |-> "nothing", df |-> NoFrame]

\* The table find works on: self.vdjdb when it is set; when it is None, the
\* cache file read back with inferred dtypes, or a fetch when there is no such
\* file (FileNotFoundError is the one exception caught). Reading an attribute
\* that was never set raises AttributeError; a cache file that cannot be
\* read raises out of read_csv.
ResolveDb(im, db, cf, net, tt) ==
    IF db.st = "unset" THEN [raised |-> "AttributeError", vdjdb |-> db, cache |-> cf]
    ELSE IF db.st = "frame" THEN [raised |-> "", vdjdb |-> db, cache |-> cf]
    ELSE IF cf.st = "corrupt" THEN [raised |-> "BadGzipFile", vdjdb |-> db, cache |-> cf]
    ELSE IF cf.st = "file"
         THEN [raised |-> "", vdjdb |-> Frame(ReadCsv(cf.file, FALSE)), cache |-> cf]
    ELSE GetVdjdb(im, db, cf, net, tt)

\* The object has a __dict__ to read the vdjdb_* attributes from: a class
\* made by attrs.define has slots and none; the plain class of query_db has.
HasDict(im) == im = "query_db"

\* The branch of find for a spec that holds a pair, on the data frame df.
FindRows(im, df, q, co) ==
    IF QueryRaises(df, q) # "" THEN [raised |-> QueryRaises(df, q), ret |-> Nothing]
    ELSE IF co /\ ~HasDict(im) THEN [raised |-> "AttributeError", ret |-> Nothing]
    ELSE LET v_result == IF co THEN Loc(QueryRows(df, q), ConstructCols)
                         ELSE QueryRows(df, q)
         IN  [raised |-> "", ret |-> Frame(SortValues(v_result, <<Complex, Gene>>))]

\* find without its else branch: an empty spec joins to the empty expression,
\* which DataFrame.query refuses.
FindAllByQuery(db) == [raised |-> "ValueError", ret |-> Nothing]

\* The branch of find for no spec or an empty one: self.vdjdb as it is.
FindAll(db) ==
    IF db.st = "unset" THEN [raised |-> "AttributeError", ret |-> Nothing]
    ELSE [raised |-> "", ret |-> db]

\* find(vdjdb_search = q, construct_only = co): what is raised, what is
\* returned, whether the returned object is self.vdjdb itself, and self.vdjdb
\* and the cache file afterwards.
Find(im, db, cf, net, tt, q, co) ==
    IF q # <<>>
    THEN LET got == ResolveDb(im, db, cf, net, tt)
             res == IF got.raised # "" THEN [raised |-> got.raised, ret |-> Nothing]
                    ELSE IF got.vdjdb.st # "frame"
                         THEN [raised |-> "AttributeError", ret |-> Nothing]
                    ELSE FindRows(im, got.vdjdb.df, q, co)
         IN  [raised |-> res.raised, ret |-> res.ret, same |-> FALSE,
              vdjdb |-> got.vdjdb, cache |-> got.cache]
    ELSE [raised |-> FindAll(db).raised, ret |-> FindAll(db).ret,
          same |-> FindAll(db).raised = "", vdjdb |-> db, cache |-> cf]

-----------------------------------------------------------------------------
(* The inputs of the model. *)

RawCols == <<Gene, Cdr3, V, J, Complex, Species>>

RawRow(g, c, v, j, x, sp) ==
    [col \in Range(RawCols) |->
        CASE col = Gene -> g
          [] col = Cdr3 -> c
          [] col = V -> v
          [] col = J -> j
          [] col = Complex -> x
          [] col = Species -> sp]

TRA == <<"T", "R", "A">>
TRB == <<"T", "R", "B">>
CASS == <<"C", "A", "S", "S">>
CAVR == <<"C", "A", "V", "R">>
TRAV8 == <<"T", "R", "A", "V", "8", "-", "1">>
TRAV12 == <<"T", "R", "A", "V", "1", "2">>
TRBV6 == <<"T", "R", "B", "V", "6", "-", "5">>
TRAJ9 == <<"T", "R", "A", "J", "9">>
TRBJ2 == <<"T", "R", "B", "J", "2", "-", "1">>
MusMusculus == <<"M", "u", "s", "M", "u", "s", "c", "u", "l", "u", "s">>

\* The rows a release is made of: a paired complex ("1"), chains of no complex
\* ("0", as VDJdb marks them), one of them without a V segment, and a chain of
\* another species.
RowUniverse ==
    { RawRow(TRA, CAVR, TRAV8, TRAJ9, <<"1">>, HomoSapiens),
      RawRow(TRB, CASS, TRBV6, TRBJ2, <<"1">>, HomoSapiens),
      RawRow(TRB, CASS, <<>>, TRBJ2, <<"0">>, HomoSapiens),
      RawRow(TRA, CASS, TRAV8, TRAJ9, <<"0">>, HomoSapiens),
      RawRow(TRA, CAVR, TRAV12, TRAJ9, <<"2">>, MusMusculus),
      RawRow(TRA, CAVR, TRAV12, TRAJ9, <<"0">>, HomoSapiens) }

\* The sequences of at most n different elements of S.
InjSeqs(S, n) ==
    UNION { { f \in [1..k -> S] : \A i, j \in 1..k : f[i] = f[j] => i = j } : k \in 0..n }

Upstreams(n) == { [cols |-> RawCols, rows |-> rows] : rows \in InjSeqs(RowUniverse, n) }

\* The query specs: no spec, one pair, two pairs, a column that holds numbers
\* when dtypes are inferred, a column with a missing value, a name that is no
\* column, and a substring that holds a quote.
QueryUniverse ==
    { <<>>,
      <<Pair(Cdr3, CASS)>>,
      <<Pair(Gene, <<"T", "R">>)>>,
      <<Pair(Gene, TRA), Pair(Cdr3, CASS)>>,
      <<Pair(Complex, <<"1">>)>>,
      <<Pair(V, <<"0", "8">>)>>,
      <<Pair("bogus", <<"x">>)>>,
      <<Pair(Cdr3, <<"'">>)>> }

\* The texts of a segment cell: letters of the chain names, a digit, a dash.
CellAlphabet == {"T", "R", "A", "1", "-"}
CellTexts == UNION { [1..k -> CellAlphabet] : k \in 0..MaxCellLen }

\* Segment names as the releases write them.
ExampleCells == {TRAV8, TRAV12, TRBV6, TRAJ9, TRBJ2}

-----------------------------------------------------------------------------
(* The object and its calls. *)

\* self.vdjdb after construction: set to None by __init__ of query_db, and
\* not set at all by the attrs class of _query (field(init = False)).
NewVdjdb(im) == IF im = "query_db" THEN None ELSE Unset

\* file_query was given no path (query is None or ""), or a file of named
\* queries, in the order the file declares them.
NoQueries == [st |-> "none", qs |-> <<>>]
Loaded(qs) == [st |-> "loaded", qs |-> qs]

\* No call: also the shape of a call's record. pre is what self.vdjdb and
\* the cache file were when the call began.
NoCall == [op |-> "none", q |-> <<>>, co |-> FALSE, net |-> "ok", raised |-> "",
           ret |-> Nothing, same |-> FALSE, pre |-> [db |-> "", cache |-> ""]]

Pre == [db |-> vdjdb.st, cache |-> cache.st]

Init ==
    /\ impl \in {"_query", "query_db"}
    /\ upstream \in Upstreams(MaxRows)
    /\ cache \in {Absent, Corrupt}
    /\ vdjdb = NewVdjdb(impl)
    /\ last = NoCall
    /\ pc = "idle"
    /\ queries = NoQueries
    /\ all_results = <<>>
    /\ segs = <<>>

\* PublicTcrDb(): a new object, in a directory that keeps its cache file.
Construct ==
    /\ pc = "idle" /\ last = NoCall
    /\ vdjdb.st # NewVdjdb(impl).st
    /\ vdjdb' = NewVdjdb(impl)
    /\ last' = NoCall
    /\ UNCHANGED <<impl, upstream, cache, pc, queries, all_results, segs>>

\* tcrdb.get_vdjdb()
CallGetVdjdb(net) ==
    LET g == GetVdjdb(impl, vdjdb, cache, net, upstream)
    IN  /\ pc = "idle" /\ last = NoCall
        /\ vdjdb' = g.vdjdb
        /\ cache' = g.cache
        /\ last' = [NoCall EXCEPT !.op = "get_vdjdb", !.net = net,
                                   !.raised = g.raised, !.pre = Pre]
        /\ UNCHANGED <<impl, upstream, pc, queries, all_results, segs>>

\* tcrdb.find(vdjdb_search = q, construct_only = co)
CallFind(q, co, net) ==
    LET f == Find(impl, vdjdb, cache, net, upstream, q, co)
    IN  /\ pc = "idle" /\ last = NoCall
        /\ vdjdb' = f.vdjdb
        /\ cache' = f.cache
        /\ last' = [op |-> "find", q |-> q, co |-> co, net |-> net,
                    raised |-> f.raised, ret |-> f.ret, same |-> f.same,
                    pre |-> Pre]
        /\ UNCHANGED <<impl, upstream, pc, queries, all_results, segs>>

\* The caller takes what the call returned or raised.
Return ==
    /\ pc = "idle" /\ last # NoCall
    /\ last' = NoCall
    /\ UNCHANGED <<impl, upstream, cache, vdjdb, pc, queries, all_results, segs>>

Next ==
    \/ Construct
    \/ Return
    \/ \E net \in Nets : CallGetVdjdb(net)
    \/ \E q \in QueryUniverse, co \in BOOLEAN, net \in Nets : CallFind(q, co, net)

Spec == Init /\ [][Next]_vars

-----------------------------------------------------------------------------
(* The same object when a step of get_vdjdb may fail. *)

\* The specs asked of the object after a fetch.
FetchQueries == { <<>>, <<Pair(Gene, <<"T", "R">>)>>, <<Pair(V, <<"0", "8">>)>> }

InitFetch ==
    /\ impl \in {"_query", "query_db"}
    /\ upstream \in Upstreams(MaxFetchRows)
    /\ cache \in {Absent, Corrupt}
    /\ vdjdb = NewVdjdb(impl)
    /\ last = NoCall
    /\ pc = "idle"
    /\ queries = NoQueries
    /\ all_results = <<>>
    /\ segs = <<>>

NextFetch ==
    \/ Construct
    \/ Return
    \/ \E net \in Runs : CallGetVdjdb(net)
    \/ \E q \in FetchQueries, net \in Runs : CallFind(q, FALSE, net)

SpecFetch == InitFetch /\ [][NextFetch]_vars

-----------------------------------------------------------------------------
(* _fix_vj_format alone, pass after pass over one cell. *)

InitNorm ==
    /\ impl \in {"_query", "query_db"}
    /\ upstream = [cols |-> RawCols, rows |-> <<>>]
    /\ cache = Absent
    /\ vdjdb = NewVdjdb(impl)
    /\ last = NoCall
    /\ pc = "idle"
    /\ queries = NoQueries
    /\ all_results = <<>>
    /\ \E x \in CellTexts \cup ExampleCells : segs = <<Str(x)>>

\* One more call of _fix_vj_format on the cell.
Normalize ==
    /\ Len(segs) <= MaxPasses
    /\ segs' = Append(segs, FixVjCell(segs[Len(segs)]))
    /\ UNCHANGED <<impl, upstream, cache, vdjdb, last, pc, queries, all_results>>

NextNorm == Normalize

SpecNorm == InitNorm /\ [][NextNorm]_vars

-----------------------------------------------------------------------------
(* file_query, step by step: the fetch, one turn of the loop per named      *)
(* query, the return.                                                       *)

\* The ids of a query file, in the order the file declares them.
QueryIds == <<"q2", "q1", "q3", "q4">>

\* The specs of the named queries of a file.
BatchQueries ==
    { <<>>,
      <<Pair(Cdr3, CASS)>>,
      <<Pair(Gene, TRA), Pair(Cdr3, CASS)>>,
      <<Pair("bogus", <<"x">>)>> }

\* The query files of at most n named queries, and no file.
Sources(n) ==
    {NoQueries} \cup
    UNION { { Loaded([i \in 1..k |-> [id |-> QueryIds[i], spec |-> f[i]]]) :
                f \in [1..k -> BatchQueries] } : k \in 0..n }

QueryResult(id, result, query, same) ==
    [id |-> id, result |-> result, query |-> query, db |-> "vdjdb", same |-> same]

\* What an earlier run left in the directory: nothing, a file that cannot be
\* read, or the table it fetched from the same release.
EarlierCaches(tt) ==
    {Absent, Corrupt, GetVdjdb("_query", Unset, Absent, "ok", tt).cache}

InitBatch ==
    /\ impl = "_query"
    /\ upstream \in Upstreams(MaxBatchRows)
    /\ cache \in EarlierCaches(upstream)
    /\ vdjdb = NewVdjdb(impl)
    /\ last = NoCall
    /\ pc = "idle"
    /\ queries = NoQueries
    /\ all_results = <<>>
    /\ segs = <<>>

\* tcrdb = cls(logger = logger); tcrdb.get_vdjdb(); then the test of query
\* and toml.load(query).
FileQueryBegin(src, net) ==
    LET g == GetVdjdb(impl, NewVdjdb(impl), cache, net, upstream)
    IN  /\ pc = "idle"
        /\ vdjdb' = g.vdjdb
        /\ cache' = g.cache
        /\ last' = [NoCall EXCEPT !.op = "get_vdjdb", !.net = net,
                                   !.raised = g.raised, !.pre = Pre]
        /\ queries' = IF g.raised = "" THEN src ELSE NoQueries
        /\ pc' = IF g.raised # "" THEN "raised"
                 ELSE IF src.st = "loaded" THEN "loop" ELSE "full"
        /\ UNCHANGED <<impl, upstream, all_results, segs>>

\* One turn of "for id in queries": find, then the QueryResult appended. What
\* find raises leaves the loop and file_query. The release is the one the run
\* began with.
FileQueryFind ==
    LET i == Len(all_results) + 1
        f == Find(impl, vdjdb, cache, last.net, upstream, queries.qs[i].spec, FALSE)
    IN  /\ pc = "loop"
        /\ i <= Len(queries.qs)
        /\ vdjdb' = f.vdjdb
        /\ cache' = f.cache
        /\ last' = [op |-> "find", q |-> queries.qs[i].spec, co |-> FALSE,
                    net |-> last.net, raised |-> f.raised, ret |-> f.ret,
                    same |-> f.same, pre |-> Pre]
        /\ IF f.raised # ""
           THEN pc' = "raised" /\ UNCHANGED all_results
           ELSE /\ pc' = "loop"
                /\ all_results' =
                     Append(all_results,
                            QueryResult(queries.qs[i].id, f.ret, queries.qs[i].spec, f.same))
        /\ UNCHANGED <<impl, upstream, queries, segs>>

\* return all_results
FileQueryReturn ==
    /\ pc = "loop"
    /\ Len(all_results) = Len(queries.qs)
    /\ pc' = "returned"
    /\ UNCHANGED <<impl, upstream, cache, vdjdb, last, queries, all_results, segs>>

\* The branch for no query file, when it returns what the loop over no query
\* returns: the empty list.
FileQueryFullEmpty ==
    /\ pc = "full"
    /\ pc' = "returned"
    /\ last' = [NoCall EXCEPT !.op = "full", !.net = last.net, !.pre = Pre]
    /\ all_results' = <<>>
    /\ UNCHANGED <<impl, upstream, cache, vdjdb, queries, segs>>

\* The branch for no query file: one QueryResult of tcrdb.vdjdb.
FileQueryFull ==
    /\ pc = "full"
    /\ IF vdjdb.st = "unset"
       THEN /\ pc' = "raised"
            /\ last' = [NoCall EXCEPT !.op = "full", !.net = last.net,
                                       !.raised = "AttributeError", !.pre = Pre]
            /\ UNCHANGED all_results
       ELSE /\ pc' = "returned"
            /\ last' = [NoCall EXCEPT !.op = "full", !.net = last.net, !.pre = Pre]
            /\ all_results' = <<QueryResult("full_vdjdb", vdjdb, <<>>, TRUE)>>
    /\ UNCHANGED <<impl, upstream, cache, vdjdb, queries, segs>>

NextBatch ==
    \/ \E src \in Sources(MaxQueries), net \in Runs : FileQueryBegin(src, net)
    \/ FileQueryFind
    \/ FileQueryReturn
    \/ FileQueryFull

SpecBatch == InitBatch /\ [][NextBatch]_vars

-----------------------------------------------------------------------------
(* Properties. *)

Count(rows, r) == Cardinality({i \in DOMAIN rows : rows[i] = r})

\* The same rows, each as many times, in any order.
SameRows(a, b) ==
    /\ Len(a) = Len(b)
    /\ \A r \in Range(a) \cup Range(b) : Count(a, r) = Count(b, r)

\* The text a cell stands for: a missing value stands for the empty text.
ValueText(cell) == IF cell.t = "nan" THEN <<>> ELSE cell.s

\* Every pair of the spec q holds of row r.
Holds(r, q) == \A i \in 1..Len(q) : Contains(ValueText(r[q[i].k]), q[i].v)

\* find has just ended, on a spec that holds a pair / on no or an empty spec.
FoundFor == last.op = "find" /\ last.q # <<>>
FoundAll == last.op = "find" /\ last.q = <<>>
Returned == last.op = "find" /\ last.raised = "" /\ last.ret.st = "frame"

\* C1: normalization is idempotent: a second pass of _fix_vj_format over a
\* cell gives what the first pass gave.
C1_Idempotent == Len(segs) >= 3 => segs[3] = segs[2]

\* C2: for a spec of pairs on columns of the table, find (without
\* projection) returns exactly the rows of the table that every pair holds
\* of, as a literal substring.
C2_FindExact ==
    (/\ FoundFor /\ ~last.co
     /\ vdjdb.st = "frame"
     /\ \A i \in 1..Len(last.q) : last.q[i].k \in Range(vdjdb.df.cols))
    => /\ Returned
       /\ SameRows(last.ret.df.rows,
                   SelectSeq(vdjdb.df.rows, LAMBDA r : Holds(r, last.q)))

\* Rows in ascending order of complex.id and, within one complex.id, of gene.
Ascending(rows) ==
    \A i, j \in 1..Len(rows) :
        i < j => \/ CellLess(rows[i][Complex], rows[j][Complex])
                 \/ /\ rows[i][Complex] = rows[j][Complex]
                    /\ ~CellLess(rows[j][Gene], rows[i][Gene])

\* C3 as stated: every table find returns, for any spec and also for no spec
\* or an empty one, is sorted ascending by complex.id, then by gene.
C3_AlwaysSorted == Returned => Ascending(last.ret.df.rows)

\* C3, amended: every table find returns for a spec that holds a pair is
\* sorted ascending by complex.id, then by gene, with or without projection.
C3_SortedForSpec == (Returned /\ FoundFor) => Ascending(last.ret.df.rows)

\* find returned, for a spec with a pair, rows it had to put in another order.
C3_Witness ==
    /\ Returned /\ FoundFor
    /\ Len(last.ret.df.rows) >= 2
    /\ ~Ascending(QueryRows(vdjdb.df, last.q).rows)

IsAlpha(r) == r[Gene] = Str(TRA)
IsBeta(r) == r[Gene] = Str(TRB)
RowsOf(rows, c) == {i \in 1..Len(rows) : rows[i][Complex] = c}

\* The rows of complex c are one alpha chain and one beta chain.
OnePair(rows, c) ==
    /\ Cardinality(RowsOf(rows, c)) = 2
    /\ \E i, j \in RowsOf(rows, c) : IsAlpha(rows[i]) /\ IsBeta(rows[j])

\* The alpha row of complex c is right before its beta row.
AlphaThenBeta(rows, c) ==
    \A i \in RowsOf(rows, c) :
        /\ IsAlpha(rows[i]) => (i + 1) \in RowsOf(rows, c) /\ IsBeta(rows[i + 1])
        /\ IsBeta(rows[i]) => (i - 1) \in RowsOf(rows, c) /\ IsAlpha(rows[i - 1])

Complexes(rows) == {rows[i][Complex] : i \in 1..Len(rows)}

\* C4 as stated: in the result of find, the rows of any complex.id that is on
\* more than one row are an alpha row right before a beta row.
C4_Pairing ==
    Returned =>
        \A c \in Complexes(last.ret.df.rows) :
            Cardinality(RowsOf(last.ret.df.rows, c)) > 1
            => AlphaThenBeta(last.ret.df.rows, c)

\* C4, amended: in the result of find for a spec that holds a pair, the rows
\* of any complex.id that is on exactly two rows, one alpha chain and one
\* beta chain, are the alpha row right before the beta row.
C4_PairingOfPairs ==
    (Returned /\ FoundFor) =>
        \A c \in Complexes(last.ret.df.rows) :
            OnePair(last.ret.df.rows, c) => AlphaThenBeta(last.ret.df.rows, c)

\* find returned a pair that the table holds beta row first.
C4_Witness ==
    /\ Returned /\ FoundFor
    /\ \E c \in Complexes(last.ret.df.rows) :
          /\ OnePair(last.ret.df.rows, c)
          /\ ~AlphaThenBeta(QueryRows(vdjdb.df, last.q).rows, c)

\* C5: find with projection returns the five construct columns, in their
\* order, and nothing else, with one row for each row that find without
\* projection returns, for every spec, the empty one too.
C5_Projection ==
    (/\ last.op = "find" /\ last.co
     /\ vdjdb.st = "frame"
     /\ Find(impl, vdjdb, cache, last.net, upstream, last.q, FALSE).raised = "")
    => /\ Returned
       /\ last.ret.df.cols = ConstructCols
       /\ \A i \in 1..Len(last.ret.df.rows) :
             DOMAIN last.ret.df.rows[i] = Range(ConstructCols)
       /\ Len(last.ret.df.rows) =
             Len(Find(impl, vdjdb, cache, last.net, upstream, last.q, FALSE).ret.df.rows)

\* C6: with no spec or an empty one and no projection, find on an object
\* that holds a table returns the whole table, every row of it and no other,
\* and raises nothing.
C6_Passthrough ==
    (FoundAll /\ ~last.co /\ last.pre.db = "frame")
    => /\ Returned
       /\ last.ret.df.cols = vdjdb.df.cols
       /\ SameRows(last.ret.df.rows, vdjdb.df.rows)

\* find with no spec returned a table of several rows.
C6_Witness ==
    /\ FoundAll /\ ~last.co /\ Returned
    /\ Len(last.ret.df.rows) >= 2

\* C7: find gives the same, rows, cells and order, on an object that loads
\* the table from the cache file get_vdjdb stored as on the object that has
\* just fetched and normalized that table.
C7_CacheTransparent ==
    (FoundFor /\ last.pre.db # "frame" /\ last.pre.cache = "file")
    => LET fetched == GetVdjdb(impl, NewVdjdb(impl), Absent, "ok", upstream)
           fresh == Find(impl, fetched.vdjdb, fetched.cache, "ok", upstream,
                         last.q, last.co)
       IN  /\ cache = fetched.cache
           /\ last.raised = fresh.raised
           /\ last.ret = fresh.ret

\* C10: a cache file that cannot be read is a miss: find on an object that
\* holds no table yet raises nothing because of it and leaves the object with
\* the table a fetch gives.
C10_CorruptIsMiss ==
    (/\ FoundFor /\ last.pre.db # "frame" /\ last.pre.cache = "corrupt"
     /\ last.net = "ok")
    => /\ last.raised \notin {"BadGzipFile", "AttributeError"}
       /\ vdjdb = GetVdjdb(impl, NewVdjdb(impl), Absent, "ok", upstream).vdjdb

\* file_query has ended, by a return or by an exception, on a query file,
\* after a fetch that gave a table.
BatchEnded ==
    pc \in {"returned", "raised"} /\ queries.st = "loaded" /\ vdjdb.st = "frame"

\* C8: file_query on a file of n named queries returns n QueryResults, one
\* for each id, in the order the file declares the ids; a query that no row
\* matches has its QueryResult too, with no row.
C8_OnePerQuery ==
    BatchEnded =>
        /\ pc = "returned"
        /\ Len(all_results) = Len(queries.qs)
        /\ \A i \in 1..Len(all_results) :
              /\ all_results[i].id = queries.qs[i].id
              /\ all_results[i].query = queries.qs[i].spec
              /\ all_results[i].result.st = "frame"

UnknownColumn(q) == \E i \in 1..Len(q) : q[i].k \notin Range(vdjdb.df.cols)

\* C9: a query on a name that is no column fails alone: the other queries of
\* the file are evaluated and their QueryResults returned.
C9_FailsAlone ==
    (/\ BatchEnded
     /\ \E i \in 1..Len(queries.qs) : UnknownColumn(queries.qs[i].spec)
     /\ \E i \in 1..Len(queries.qs) : ~UnknownColumn(queries.qs[i].spec))
    => /\ pc = "returned"
       /\ \A i \in 1..Len(queries.qs) :
             ~UnknownColumn(queries.qs[i].spec)
             => \E j \in 1..Len(all_results) : all_results[j].id = queries.qs[i].id

\* The table _extract_dfs makes of the release, before any pattern is replaced.
Extracted == ExtractDfs(impl, TRUE, upstream)[1]

\* df is the extracted table after some but not all of the three replaces
\* (none included), and differs from the table after all three.
PartlyNormalized(df) ==
    /\ df # RulesApplied(Extracted, 3)
    /\ \E n \in 0..2 : df = RulesApplied(Extracted, n)

\* The run of get_vdjdb failed: it raised, or it logged the missing member.
FetchFailed ==
    /\ last.op = "get_vdjdb"
    /\ last.raised # "" \/ last.net = "no_member"

\* C11: after a get_vdjdb that failed, at whichever step, neither self.vdjdb
\* nor the cache file holds the extracted table with only some of the three
\* patterns replaced (raw or partly rewritten).
C11_FailureAtomic ==
    FetchFailed
    => /\ ~(vdjdb.st = "frame" /\ PartlyNormalized(vdjdb.df))
       /\ ~(cache.st = "file" /\ \E n \in 0..2 :
                /\ cache.file = ToCsv(RulesApplied(Extracted, n))
                /\ cache.file # ToCsv(RulesApplied(Extracted, 3)))

\* C12: file_query asks the network for the release (the requests.get that
\* get_vdjdb begins with) only when the directory holds no cache file that
\* can be read.
C12_CacheOrFetch ==
    (last.op = "get_vdjdb" /\ pc # "idle") => last.pre.cache # "file"

\* C13: a run of file_query on a release whose archive lacks the requested
\* member goes on past the missing member: get_vdjdb raises nothing, and no
\* exception ends the run.
C13_MissingMemberNonFatal ==
    (pc # "idle" /\ last.net = "no_member")
    => /\ last.op = "get_vdjdb" => last.raised = ""
       /\ pc # "raised"

\* The list file_query returns for the whole table: one QueryResult, with the
\* id "full_vdjdb", the empty spec, and as result the table of the release,
\* extracted and with the three patterns replaced.
WholeTableResult ==
    /\ Len(all_results) = 1
    /\ all_results[1].id = "full_vdjdb"
    /\ all_results[1].query = <<>>
    /\ all_results[1].result = Frame(RulesApplied(Extracted, 3))

\* C14: a file_query that was given no query file, or a file that names no
\* query, returns that one QueryResult.
C14_FullTableForNoSource ==
    (pc = "returned" /\ (queries.st = "none" \/ queries.qs = <<>>))
    => WholeTableResult

\* C14, amended: a file_query that was given no path to a query file (None or
\* the empty string) returns that one QueryResult.
C14_FullTableForNoPath ==
    (pc = "returned" /\ queries.st = "none") => WholeTableResult

\* file_query returned for no path, on a release with a row the patterns rewrite.
C14_Witness ==
    /\ pc = "returned"
    /\ queries.st = "none"
    /\ Len(Extracted.rows) > 0
    /\ RulesApplied(Extracted, 3) # Extracted

C16_BuiltBeforeQueried ==
    last.op = "find"
    => /\ last.pre.db = "frame"
       /\ vdjdb = Frame(RulesApplied(Extracted, 3))

\* A step that is a call of find on an object whose table is in place.
FindOnBuiltTable ==
    /\ vdjdb.st = "frame"
    /\ last = NoCall
    /\ last'.op = "find"

\* C17: every find on an object whose table is in place leaves self.vdjdb as
\* it was (rows, cells, order), and what it returns is an object of its own,
\* never self.vdjdb itself.
C17_PureAndOwnOutput ==
    [][FindOnBuiltTable
       => /\ vdjdb' = vdjdb
          /\ last'.raised = "" => ~last'.same]_vars

=============================================================================
